---- MODULE Spec2Model ----
(***************************************************************************)
(* A model of mht2html.py: the conversion of an MHT archive into an HTML   *)
(* file plus a directory of extracted resources.                           *)
(*                                                                         *)
(* Text is modelled as a sequence of code points, so that the regular      *)
(* expressions, str.strip, os.path and base64 work on what the text holds. *)
(*                                                                         *)
(*   SpecSplit   lines 137-150 of process(): boundary, split, HTML body    *)
(*   SpecStyles  process_styles                                            *)
(*   Spec        process() as a whole, with the worker pool                *)
(***************************************************************************)
EXTENDS Integers, Sequences, FiniteSets, TLC

VARIABLES
    \* ---- SpecSplit: the locals of process(), lines 133-150
    content,        \* the text read from mht_path
    boundary,       \* boundary_match.group(1)
    parts,          \* re.split(...) of content
    html_part,      \* the first part holding "Content-Type: text/html"
    html_text,      \* the text handed to BeautifulSoup
    sp,             \* where lines 137-150 stand
    given,          \* the input as it was given (not program state)
    \* ---- the document tree and process_styles
    soup,           \* the elements of the tree, in document order
    style_map,      \* process_styles: style_map
    css_rules,      \* process_styles: css_rules
    counter,        \* process_styles: counter
    todo,           \* process_styles: what soup.find_all(style=True) has left
    run,            \* process_styles: how many runs have started
    \* ---- Spec: an MHTProcessor and its process()
    max_workers,    \* the size of the pool, set by the constructor
    executor,       \* self.executor: "open" or "shutdown"
    calls,          \* how many calls of process() have started
    pc,             \* where process() stands
    raised,         \* the step whose exception line 216 caught, "none" for none
    css_content,    \* line 154
    total_resources,\* lines 160-167
    next_part,      \* the index of the part the loop of lines 170-193 takes next
    futures,        \* line 156: the submitted tasks, each with its state
    collected,      \* the futures as_completed has handed to line 196
    resource_map,   \* line 157
    progress,       \* how many times progress_bar.update has been called
    dir_made,       \* whether this call has created resource_dir
    written,        \* the resource files this call has written: path -> bytes
    output,         \* what this call has written to output_path, None for nothing
    result          \* what the last call returned, None before it returns

splitVars  == <<content, boundary, parts, html_part, html_text, sp>>
styleState == <<style_map, css_rules, counter, todo, run>>
styleVars  == <<soup, styleState>>
pipeVars   == <<max_workers, executor, calls, pc, raised, css_content, total_resources,
                next_part, futures, collected, resource_map, progress, dir_made, written,
                output, result>>

vars == <<splitVars, given, styleVars, pipeVars>>

(***************************************************************************)
(* Text                                                                    *)
(***************************************************************************)
None == <<-1>>                      \* Python's None: no text is equal to it

StartsWithAt(s, i, pat) ==
    /\ i >= 1
    /\ i + Len(pat) - 1 <= Len(s)
    /\ SubSeq(s, i, i + Len(pat) - 1) = pat

\* pat in s
Contains(s, pat) == \E i \in 1..(Len(s) + 1) : StartsWithAt(s, i, pat)

\* s.find(pat) + 1: the first index where pat starts, 0 when there is none
Find(s, pat) ==
    IF Contains(s, pat)
    THEN CHOOSE i \in 1..(Len(s) + 1) :
            /\ StartsWithAt(s, i, pat)
            /\ \A j \in 1..(i - 1) : ~StartsWithAt(s, j, pat)
    ELSE 0

\* the characters str.strip() removes, among the code points below 128
IsSpace(c) == c \in (9..13) \cup (28..32)

\* s.strip()
Strip(s) ==
    LET keep == {i \in 1..Len(s) : ~IsSpace(s[i])}
    IN  IF keep = {} THEN <<>>
        ELSE SubSeq(s, CHOOSE a \in keep : \A k \in keep : a <= k,
                       CHOOSE b \in keep : \A k \in keep : b >= k)

(***************************************************************************)
(* The literals of the source                                              *)
(***************************************************************************)
BOUNDARY_DECL == <<98,111,117,110,100,97,114,121,61,34>>     \* boundary="
QUOTE         == 34                                          \* "
DASHES        == <<45,45>>                                   \* --
NL            == <<10>>                                      \* \n
BLANK_LF      == <<10,10>>                                   \* \n\n
BLANK_CRLF    == <<13,10,13,10>>                             \* \r\n\r\n
NL_DASHES     == <<10,45,45>>                                \* \n--
CT_TEXT_HTML  == <<67,111,110,116,101,110,116,45,84,121,112,101,58,32,
                   116,101,120,116,47,104,116,109,108>>      \* Content-Type: text/html
CL_MARK       == <<67,111,110,116,101,110,116,45,76,111,99,97,116,105,111,110,58>>
                                                             \* Content-Location:

(***************************************************************************)
(* Lines 137-150: the boundary, the parts, the HTML body                   *)
(***************************************************************************)
\* re.search(r'boundary="([^"]+)"', content).group(1), or None: the leftmost
\* boundary=" that is followed by one character or more other than a quote, and
\* then by a quote
BoundarySearch(s) ==
    LET quoteAfter(i) == {k \in i..Len(s) : s[k] = QUOTE}
        starts == {i \in 1..Len(s) :
                      /\ StartsWithAt(s, i - Len(BOUNDARY_DECL), BOUNDARY_DECL)
                      /\ s[i] # QUOTE
                      /\ quoteAfter(i) # {}}
    IN  IF starts = {} THEN None
        ELSE LET i == CHOOSE i \in starts : \A k \in starts : i <= k
                 q == CHOOSE q \in quoteAfter(i) : \A k \in quoteAfter(i) : q <= k
             IN  SubSeq(s, i, q - 1)

\* the length of what rf"--{boundary}(?:--)?\n" matches at i, 0 when it does not
\* (the boundary is interpolated as it is: the model's boundaries hold no
\* character that is special in a regular expression)
MarkerLenAt(s, i, b) ==
    IF StartsWithAt(s, i, DASHES \o b \o DASHES \o NL)
    THEN Len(b) + 5
    ELSE IF StartsWithAt(s, i, DASHES \o b \o NL) THEN Len(b) + 3 ELSE 0

\* re.split(rf"--{boundary}(?:--)?\n", content)
RECURSIVE ReSplitFrom(_, _, _, _)
ReSplitFrom(s, b, from, i) ==
    IF i > Len(s) THEN <<SubSeq(s, from, Len(s))>>
    ELSE IF MarkerLenAt(s, i, b) > 0
         THEN <<SubSeq(s, from, i - 1)>>
              \o ReSplitFrom(s, b, i + MarkerLenAt(s, i, b), i + MarkerLenAt(s, i, b))
         ELSE ReSplitFrom(s, b, from, i + 1)

ReSplit(s, b) == ReSplitFrom(s, b, 1, 1)

\* next((p for p in parts if "Content-Type: text/html" in p), None)
FirstHtmlPart(ps) ==
    LET hits == {i \in 1..Len(ps) : Contains(ps[i], CT_TEXT_HTML)}
    IN  IF hits = {} THEN None
        ELSE ps[CHOOSE i \in hits : \A j \in hits : i <= j]

\* where (?:\n\n|\r\n\r\n) matches first: <<its start, the start of group 1>>
SeparatorAt(s, i) ==
    IF StartsWithAt(s, i, BLANK_LF) THEN i + 2
    ELSE IF StartsWithAt(s, i, BLANK_CRLF) THEN i + 4 ELSE 0

\* (?=\n--|$) at index j (1-based, Len+1 is the end): $ without re.MULTILINE
\* matches at the end and before a final newline
LookaheadAt(s, j) ==
    \/ StartsWithAt(s, j, NL_DASHES)
    \/ j = Len(s) + 1
    \/ (j = Len(s) /\ s[j] = 10)

\* a search that takes a part without a blank line for its own body
HtmlMatchOrWhole(s) ==
    LET seps == {i \in 1..Len(s) : SeparatorAt(s, i) > 0}
    IN  IF seps = {} THEN s
        ELSE SubSeq(s, SeparatorAt(s, CHOOSE i \in seps : \A k \in seps : i <= k), Len(s))

\* re.search(r"(?:\n\n|\r\n\r\n)(.*?)(?=\n--|$)", html_part, re.DOTALL).group(1),
\* or None: the leftmost separator, then the shortest group the lookahead accepts
HtmlMatch(s) ==
    LET seps == {i \in 1..Len(s) : SeparatorAt(s, i) > 0}
    IN  IF seps = {} THEN None
        ELSE LET g    == SeparatorAt(s, CHOOSE i \in seps : \A k \in seps : i <= k)
                 ends == {j \in g..(Len(s) + 1) : LookaheadAt(s, j)}
                 e    == CHOOSE j \in ends : \A k \in ends : j <= k
             IN  SubSeq(s, g, e - 1)

(***************************************************************************)
(* The document tree: the elements in document order, each with its tag    *)
(* name, its depth in the tree (the children of an element follow it, one  *)
(* level deeper), its own text and its attributes (a function from the     *)
(* names of the attributes it has to their values; the value of class is a *)
(* list of names)                                                          *)
(***************************************************************************)
Has(el, a) == a \in DOMAIN el.attrs

\* tag.get(a, default)
Get(el, a, default) == IF Has(el, a) THEN el.attrs[a] ELSE default

\* tag[a] = v
SetAttr(el, a, v) ==
    [el EXCEPT !.attrs = [x \in DOMAIN el.attrs \cup {a} |->
                              IF x = a THEN v ELSE el.attrs[x]]]

\* del tag[a]
DelAttr(el, a) ==
    [el EXCEPT !.attrs = [x \in DOMAIN el.attrs \ {a} |-> el.attrs[x]]]

(***************************************************************************)
(* process_styles, lines 85-105                                            *)
(***************************************************************************)
I_STYLE == <<105,45,115,116,121,108,101,45>>                 \* i-style-

\* str(n) for n >= 0
RECURSIVE Decimal(_)
Decimal(n) == IF n < 10 THEN <<48 + n>> ELSE Decimal(n \div 10) \o <<48 + (n % 10)>>

\* f".{class_name} {{ {original_style} }}"
CssRule(class_name, style) == <<46>> \o class_name \o <<32,123,32>> \o style \o <<32,125>>

\* "\n".join(rules)
RECURSIVE JoinLines(_)
JoinLines(rules) ==
    IF rules = <<>> THEN <<>>
    ELSE IF Len(rules) = 1 THEN rules[1]
    ELSE rules[1] \o NL \o JoinLines(Tail(rules))

\* soup.find_all(style=True): the indexes of the elements that have a style
RECURSIVE FindAllStyled(_, _)
FindAllStyled(els, i) ==
    IF i > Len(els) THEN <<>>
    ELSE (IF Has(els[i], "style") THEN <<i>> ELSE <<>>) \o FindAllStyled(els, i + 1)

\* lines 87-89
StylesBegin(els) ==
    [soup |-> els, style_map |-> <<>>, css_rules |-> <<>>, counter |-> 1]

\* StyleIter with counter += 1 moved out of the if of line 95: every element
\* that is given a class uses up a number
StyleIterCountsEvery(st, i) ==
    LET el             == st.soup[i]
        original_style == Strip(Get(el, "style", <<>>))
        known          == {k \in 1..Len(st.style_map) : st.style_map[k][1] = original_style}
        class_name     == I_STYLE \o Decimal(st.counter)
        map1           == IF known = {}
                          THEN Append(st.style_map, <<original_style, class_name>>)
                          ELSE st.style_map
        mine           == map1[CHOOSE k \in 1..Len(map1) : map1[k][1] = original_style][2]
    IN  IF original_style = <<>> THEN st
        ELSE [soup      |-> [st.soup EXCEPT ![i] =
                                DelAttr(SetAttr(el, "class",
                                                Append(Get(el, "class", <<>>), mine)),
                                        "style")],
              style_map |-> map1,
              css_rules |-> IF known = {}
                            THEN Append(st.css_rules, CssRule(class_name, original_style))
                            ELSE st.css_rules,
              counter   |-> st.counter + 1]

\* lines 92-102, one turn of the loop, on element i of st.soup. style_map is
\* kept as a sequence of <<style, class name>> pairs in the order of insertion
StyleIter(st, i) ==
    LET el             == st.soup[i]
        original_style == Strip(Get(el, "style", <<>>))
        known          == {k \in 1..Len(st.style_map) : st.style_map[k][1] = original_style}
        class_name     == I_STYLE \o Decimal(st.counter)
        map1           == IF known = {}
                          THEN Append(st.style_map, <<original_style, class_name>>)
                          ELSE st.style_map
        mine           == map1[CHOOSE k \in 1..Len(map1) : map1[k][1] = original_style][2]
    IN  IF original_style = <<>> THEN st
        ELSE [soup      |-> [st.soup EXCEPT ![i] =
                                DelAttr(SetAttr(el, "class",
                                                Append(Get(el, "class", <<>>), mine)),
                                        "style")],
              style_map |-> map1,
              css_rules |-> IF known = {}
                            THEN Append(st.css_rules, CssRule(class_name, original_style))
                            ELSE st.css_rules,
              counter   |-> IF known = {} THEN st.counter + 1 ELSE st.counter]

RECURSIVE StyleLoop(_, _)
StyleLoop(st, idx) ==
    IF idx = <<>> THEN st ELSE StyleLoop(StyleIter(st, Head(idx)), Tail(idx))

\* process_styles(soup): the tree it leaves and the stylesheet it returns
ProcessStyles(els) ==
    LET st == StyleLoop(StylesBegin(els), FindAllStyled(els, 1))
    IN  [soup |-> st.soup, css |-> JoinLines(st.css_rules)]

(***************************************************************************)
(* parse_headers, lines 16-23, and the str methods it uses                 *)
(***************************************************************************)
\* s.split(c) for a separator of one character
RECURSIVE SplitChar(_, _)
SplitChar(s, c) ==
    LET at == {i \in 1..Len(s) : s[i] = c}
    IN  IF at = {} THEN <<s>>
        ELSE LET i == CHOOSE i \in at : \A k \in at : i <= k
             IN  <<SubSeq(s, 1, i - 1)>> \o SplitChar(SubSeq(s, i + 1, Len(s)), c)

\* s.split(c, 1) when c is in s
SplitOnce(s, c) ==
    LET i == CHOOSE i \in 1..Len(s) : s[i] = c /\ \A k \in 1..(i - 1) : s[k] # c
    IN  <<SubSeq(s, 1, i - 1), SubSeq(s, i + 1, Len(s))>>

\* s.lower(), for the letters A-Z
Lower(s) == [i \in 1..Len(s) |-> IF s[i] \in 65..90 THEN s[i] + 32 ELSE s[i]]

\* s.partition(sep): <<what is before sep, what is after it>>
Partition(s, sep) ==
    IF Find(s, sep) = 0 THEN <<s, <<>>>>
    ELSE <<SubSeq(s, 1, Find(s, sep) - 1), SubSeq(s, Find(s, sep) + Len(sep), Len(s))>>

\* lines 19-22: headers is a function from the keys it holds to their values
RECURSIVE ParseLines(_, _)
ParseLines(lines, headers) ==
    IF lines = <<>> THEN headers
    ELSE LET line == Head(lines)
         IN  IF \E i \in 1..Len(line) : line[i] = 58
             THEN LET kv  == SplitOnce(line, 58)
                      key == Lower(Strip(kv[1]))
                  IN  ParseLines(Tail(lines),
                                 [x \in DOMAIN headers \cup {key} |->
                                     IF x = key THEN Strip(kv[2]) ELSE headers[x]])
             ELSE ParseLines(Tail(lines), headers)

parse_headers(headers_str) == ParseLines(SplitChar(headers_str, 10), <<>>)

\* headers.get(key, default)
HeaderGet(headers, key, default) ==
    IF key \in DOMAIN headers THEN headers[key] ELSE default

(***************************************************************************)
(* save_resource, lines 25-61, and the library functions it uses           *)
(***************************************************************************)
IMAGE_JPEG == <<105,109,97,103,101,47,106,112,101,103>>      \* image/jpeg
IMAGE_PNG  == <<105,109,97,103,101,47,112,110,103>>          \* image/png
IMAGE_GIF  == <<105,109,97,103,101,47,103,105,102>>          \* image/gif
JPG        == <<106,112,103>>                                \* jpg
PNG        == <<112,110,103>>                                \* png
GIF        == <<103,105,102>>                                \* gif
BASE64     == <<98,97,115,101,54,52>>                        \* base64

\* os.path.dirname(p) and os.path.basename(p)
LastSlash(p) ==
    LET at == {i \in 1..Len(p) : p[i] = 47}
    IN  IF at = {} THEN 0 ELSE CHOOSE i \in at : \A k \in at : i >= k

DirName(p) ==
    IF LastSlash(p) = 0 THEN <<>>
    ELSE LET head == SubSeq(p, 1, LastSlash(p))
             keep == {i \in 1..Len(head) : head[i] # 47}
         IN  IF keep = {} THEN head
             ELSE SubSeq(head, 1, CHOOSE i \in keep : \A k \in keep : i >= k)

BaseName(p) == SubSeq(p, LastSlash(p) + 1, Len(p))

\* os.path.splitext(name)[0] for a name without a slash: the last dot starts the
\* extension unless only dots come before it
SplitExtRoot(name) ==
    LET dots == {i \in 1..Len(name) : name[i] = 46}
    IN  IF dots = {} THEN name
        ELSE LET d == CHOOSE i \in dots : \A k \in dots : i >= k
             IN  IF \E i \in 1..(d - 1) : name[i] # 46
                 THEN SubSeq(name, 1, d - 1) ELSE name

\* os.path.join(a, b) for a relative b
Join(a, b) ==
    IF a = <<>> THEN b
    ELSE IF a[Len(a)] = 47 THEN a \o b ELSE a \o <<47>> \o b

\* os.path.relpath(path, start) for a path below start (start "" is the
\* working directory)
RelPath(path, start) ==
    IF start = <<>> THEN path
    ELSE IF StartsWithAt(path, 1, start \o <<47>>)
         THEN SubSeq(path, Len(start) + 2, Len(path)) ELSE path

Last(seq) == seq[Len(seq)]

\* lines 40-43
Extension(content_type) ==
    IF content_type = IMAGE_JPEG THEN JPG
    ELSE IF content_type = IMAGE_PNG THEN PNG
    ELSE IF content_type = IMAGE_GIF THEN GIF
    ELSE Last(SplitChar(Last(SplitChar(content_type, 47)), 43))

\* lines 36-47: file_path
FilePath(content_location, content_type, resource_dir) ==
    Join(resource_dir,
         SplitExtRoot(BaseName(content_location)) \o <<46>> \o Extension(content_type))

\* the value of a character of the base64 alphabet, -1 for any other
B64Value(c) ==
    IF c \in 65..90 THEN c - 65
    ELSE IF c \in 97..122 THEN c - 71
    ELSE IF c \in 48..57 THEN c + 4
    ELSE IF c = 43 THEN 62
    ELSE IF c = 47 THEN 63 ELSE -1

\* base64.b64decode(data), as binascii.a2b_base64 reads it: characters outside
\* the alphabet are skipped, the padding that completes a quad ends the data,
\* and data that stops inside a quad is an error (None)
RECURSIVE B64From(_, _, _, _, _, _)
B64From(data, i, quad_pos, leftchar, pads, out) ==
    IF i > Len(data) THEN (IF quad_pos # 0 THEN None ELSE out)
    ELSE LET c == data[i]
             v == B64Value(c)
         IN  IF c = 61
             THEN IF quad_pos >= 2 /\ quad_pos + pads + 1 >= 4 THEN out
                  ELSE B64From(data, i + 1, quad_pos, leftchar,
                               IF quad_pos >= 2 THEN pads + 1 ELSE pads, out)
             ELSE IF v = -1 THEN B64From(data, i + 1, quad_pos, leftchar, pads, out)
             ELSE IF quad_pos = 0 THEN B64From(data, i + 1, 1, v, 0, out)
             ELSE IF quad_pos = 1
                  THEN B64From(data, i + 1, 2, v % 16, 0,
                               Append(out, (leftchar * 4) + (v \div 16)))
             ELSE IF quad_pos = 2
                  THEN B64From(data, i + 1, 3, v % 4, 0,
                               Append(out, (leftchar * 16) + (v \div 4)))
             ELSE B64From(data, i + 1, 0, 0, 0, Append(out, (leftchar * 64) + v))

B64Decode(data) == B64From(data, 1, 0, 0, 0, <<>>)

\* data.encode("utf-8"), for the code points below 65536
RECURSIVE Utf8(_)
Utf8(data) ==
    IF data = <<>> THEN <<>>
    ELSE LET c == Head(data)
         IN  (IF c < 128 THEN <<c>>
              ELSE IF c < 2048 THEN <<192 + (c \div 64), 128 + (c % 64)>>
              ELSE <<224 + (c \div 4096), 128 + ((c \div 64) % 64), 128 + (c % 64)>>)
             \o Utf8(Tail(data))

\* line 50: content, None when b64decode raises
Content(data, encoding) ==
    IF encoding = BASE64 THEN B64Decode(data) ELSE Utf8(data)

(***************************************************************************)
(* empty_msg, lines 67-83                                                  *)
(***************************************************************************)
\* padding-left:20px;
PAD_STYLE ==
    <<112,97,100,100,105,110,103,45,108,101,102,116,58,50,48,112,120,59>>
\* font-size:10pt;font-family:'..','MS Sans Serif',sans-serif;
FONT_STYLE ==
    <<102,111,110,116,45,115,105,122,101,58,49,48,112,116,59,102,111,110,116,45,102,97,
      109,105,108,121,58,39,23435,20307,39,44,39,77,83,32,83,97,110,115,32,83,101,114,
      105,102,39,44,115,97,110,115,45,115,101,114,105,102,59>>
FONT_COLOR == <<48,48,48,48,48,48>>                          \* 000000
\* the text of line 77
UNSUPPORTED ==
    <<91,19981,25903,25345,23548,20986,30340,28040,24687,31867,22411,93>>

\* the last element of the subtree of element i
SubtreeEnd(els, i) ==
    LET in == {j \in i..Len(els) : \A k \in (i + 1)..j : els[k].depth > els[i].depth}
    IN  CHOOSE j \in in : \A k \in in : j >= k

\* div.find("img") is not None
FindsImg(els, i) == \E j \in (i + 1)..SubtreeEnd(els, i) : els[j].name = "img"

\* div.get_text(strip=True) is not empty
HasText(els, i) == \E j \in i..SubtreeEnd(els, i) : Strip(els[j].text) # <<>>

\* what find_all("div", style="padding-left:20px;") matches
IsMessageDiv(el) ==
    el.name = "div" /\ Has(el, "style") /\ el.attrs["style"] = PAD_STYLE

\* lines 75-79: new_div with new_font in it
Placeholder(depth) ==
    <<[name |-> "div", depth |-> depth, text |-> <<>>, attrs |-> [style |-> PAD_STYLE]],
      [name |-> "font", depth |-> depth + 1, text |-> UNSUPPORTED,
       attrs |-> [style |-> FONT_STYLE, color |-> FONT_COLOR]]>>

\* lines 69-81 from element i on. The trees of the model hold no message div
\* inside another one, so an element found by find_all is still in the tree
\* when its turn comes
RECURSIVE EmptyMsgFrom(_, _)
EmptyMsgFrom(els, i) ==
    IF i > Len(els) THEN els
    ELSE IF IsMessageDiv(els[i]) /\ ~FindsImg(els, i) /\ ~HasText(els, i)
         THEN EmptyMsgFrom(SubSeq(els, 1, i - 1) \o Placeholder(els[i].depth)
                               \o SubSeq(els, SubtreeEnd(els, i) + 1, Len(els)),
                           i + 2)
         ELSE EmptyMsgFrom(els, i + 1)

empty_msg(els) == EmptyMsgFrom(els, 1)

(***************************************************************************)
(* update_references, lines 107-122                                        *)
(***************************************************************************)
\* tag.get(attr, "") of line 116
RefValue(el, attr) == Get(el, attr, <<>>)

\* line 115
RefAttr(el) == IF el.name = "img" THEN "src" ELSE "href"

\* lines 115-121 for one tag; rmap (resource_map) is a function from the content
\* locations it holds to file paths
UpdateTag(el, rmap, output_path) ==
    IF el.name \in {"img", "link", "script"}
       /\ RefValue(el, RefAttr(el)) \in DOMAIN rmap
       /\ rmap[RefValue(el, RefAttr(el))] # <<>>
    THEN SetAttr(el, RefAttr(el),
                 RelPath(rmap[RefValue(el, RefAttr(el))], DirName(output_path)))
    ELSE el

update_references(els, rmap, output_path) ==
    [i \in 1..Len(els) |-> UpdateTag(els[i], rmap, output_path)]

(***************************************************************************)
(* The stylesheet, lines 201-207                                           *)
(***************************************************************************)
TEXT_CSS == <<116,101,120,116,47,99,115,115>>                \* text/css

\* soup.head and soup.html: the first element of that name, 0 for None
FirstNamed(els, name) ==
    LET at == {i \in 1..Len(els) : els[i].name = name}
    IN  IF at = {} THEN 0 ELSE CHOOSE i \in at : \A k \in at : i <= k

\* lines 202-203
StyleTag(css) == [name |-> "style", depth |-> 0, text |-> css, attrs |-> [type |-> TEXT_CSS]]

\* els[i].append(child)
AppendChild(els, i, child) ==
    SubSeq(els, 1, SubtreeEnd(els, i))
        \o <<[child EXCEPT !.depth = els[i].depth + 1]>>
        \o SubSeq(els, SubtreeEnd(els, i) + 1, Len(els))

\* els[i].insert(0, child)
InsertFirst(els, i, child) ==
    SubSeq(els, 1, i) \o <<[child EXCEPT !.depth = els[i].depth + 1]>>
        \o SubSeq(els, i + 1, Len(els))

\* what Tag.insert returns: None in BeautifulSoup up to 4.12, the list of the
\* inserted elements from 4.13 on
InsertReturns == {"None", "list"}

(***************************************************************************)
(* SpecStyles: process_styles run on one tree after another, one turn of   *)
(* its loop at a time                                                      *)
(***************************************************************************)
MaxElems == 3
MaxRuns  == 2

\* the inline styles tried: " ", "a", " a", "b"
StyleTexts == {<<32>>, <<97>>, <<32,97>>, <<98>>}

\* an element with no style, or with one of the styles; some carry a class
StyleElems ==
    {[name |-> "div", depth |-> 0, text |-> <<>>, attrs |-> <<>>],
     [name |-> "div", depth |-> 0, text |-> <<>>,
      attrs |-> [class |-> <<<<99>>>>, style |-> <<97>>]]}
    \cup {[name |-> "div", depth |-> 0, text |-> <<>>, attrs |-> [style |-> t]] :
             t \in StyleTexts}

RECURSIVE SeqsUpTo(_, _)
SeqsUpTo(S, n) ==
    IF n = 0 THEN {<<>>}
    ELSE SeqsUpTo(S, n - 1)
         \cup {Append(t, c) : t \in {u \in SeqsUpTo(S, n - 1) : Len(u) = n - 1}, c \in S}

\* the locals of process() when no call is under way
NoCall ==
    /\ pc = "idle"
    /\ raised = "none"
    /\ css_content = <<>>
    /\ total_resources = 0
    /\ next_part = 0
    /\ futures = <<>>
    /\ collected = {}
    /\ resource_map = <<>>
    /\ progress = 0
    /\ dir_made = FALSE
    /\ written = <<>>
    /\ output = None

PipeIdle ==
    /\ NoCall
    /\ max_workers = 1
    /\ executor = "open"
    /\ calls = 0
    /\ result = None

StylesIdle ==
    /\ soup = <<>>
    /\ style_map = <<>>
    /\ css_rules = <<>>
    /\ counter = 1
    /\ todo = <<>>
    /\ run = 0

SplitIdle ==
    /\ content = <<>>
    /\ boundary = None
    /\ parts = <<>>
    /\ html_part = None
    /\ html_text = None
    /\ sp = "idle"

InitStyles ==
    /\ SplitIdle
    /\ given = <<>>
    /\ StylesIdle
    /\ PipeIdle

\* process_styles is called on a tree: lines 87-91
StylesStart ==
    /\ todo = <<>>
    /\ run < MaxRuns
    /\ \E els \in SeqsUpTo(StyleElems, MaxElems) :
          /\ given' = els
          /\ soup' = StylesBegin(els).soup
          /\ style_map' = StylesBegin(els).style_map
          /\ css_rules' = StylesBegin(els).css_rules
          /\ counter' = StylesBegin(els).counter
          /\ todo' = FindAllStyled(els, 1)
    /\ run' = run + 1
    /\ UNCHANGED <<splitVars, pipeVars>>

\* one turn of the loop of lines 91-102
StylesStep ==
    /\ todo # <<>>
    /\ LET st == StyleIter([soup |-> soup, style_map |-> style_map,
                            css_rules |-> css_rules, counter |-> counter], Head(todo))
       IN  /\ soup' = st.soup
           /\ style_map' = st.style_map
           /\ css_rules' = st.css_rules
           /\ counter' = st.counter
    /\ todo' = Tail(todo)
    /\ UNCHANGED <<splitVars, given, run, pipeVars>>

NextStyles == StylesStart \/ StylesStep

SpecStyles == InitStyles /\ [][NextStyles]_vars

(***************************************************************************)
(* SpecSplit: lines 137-150 applied to archives put together from a        *)
(* boundary declaration, one text/html part and one resource part          *)
(***************************************************************************)
MaxBodyLen == 4

\* the characters of the HTML bodies tried: a, -, \n, space
BodyAlphabet == {97, 45, 10, 32}

RECURSIVE TextsUpTo(_, _)
TextsUpTo(alphabet, n) ==
    IF n = 0 THEN {<<>>}
    ELSE TextsUpTo(alphabet, n - 1)
         \cup {Append(t, c) : t \in {u \in TextsUpTo(alphabet, n - 1) : Len(u) = n - 1},
                              c \in alphabet}

BOUNDARY_X    == <<88>>                                      \* X
DECL_X        == <<98,111,117,110,100,97,114,121,61,34,88,34,10,10>>  \* boundary="X"\n\n
NO_DECL       == <<98,111,117,110,100,97,114,121,61,34,34,10,10>>     \* boundary=""\n\n
CT_TEXT_PLAIN == <<67,111,110,116,101,110,116,45,84,121,112,101,58,32,
                   116,101,120,116,47,112,108,97,105,110>>   \* Content-Type: text/plain
RESOURCE_PART == CL_MARK \o <<97,10,10,81,10>>               \* Content-Location:a\n\nQ\n

\* what an archive is put together from
Givens ==
    [decl : {DECL_X, NO_DECL},
     head : {CT_TEXT_HTML, CT_TEXT_PLAIN},
     sep  : {BLANK_LF, BLANK_CRLF, NL},
     body : TextsUpTo(BodyAlphabet, MaxBodyLen)]

\* the text between the part's boundary line and the next boundary marker
PartOf(g) == g.head \o g.sep \o g.body \o NL

Archive(g) ==
    g.decl \o DASHES \o BOUNDARY_X \o NL \o PartOf(g)
           \o DASHES \o BOUNDARY_X \o NL \o RESOURCE_PART
           \o DASHES \o BOUNDARY_X \o DASHES \o NL

InitSplit ==
    /\ given \in Givens
    /\ content = Archive(given)
    /\ boundary = None
    /\ parts = <<>>
    /\ html_part = None
    /\ html_text = None
    /\ sp = "search"
    /\ StylesIdle
    /\ PipeIdle

\* lines 137-140
FindBoundary ==
    /\ sp = "search"
    /\ boundary' = BoundarySearch(content)
    /\ sp' = IF BoundarySearch(content) = None THEN "failed" ELSE "split"
    /\ UNCHANGED <<content, parts, html_part, html_text, given, styleVars, pipeVars>>

\* line 141
SplitParts ==
    /\ sp = "split"
    /\ parts' = ReSplit(content, boundary)
    /\ sp' = "select"
    /\ UNCHANGED <<content, boundary, html_part, html_text, given, styleVars, pipeVars>>

\* lines 143-145
SelectHtml ==
    /\ sp = "select"
    /\ html_part' = FirstHtmlPart(parts)
    /\ sp' = IF FirstHtmlPart(parts) = None THEN "failed" ELSE "match"
    /\ UNCHANGED <<content, boundary, parts, html_text, given, styleVars, pipeVars>>

\* lines 147-150
ParseHtml ==
    /\ sp = "match"
    /\ IF HtmlMatch(html_part) = None
       THEN html_text' = None /\ sp' = "failed"
       ELSE html_text' = Strip(HtmlMatch(html_part)) /\ sp' = "parsed"
    /\ UNCHANGED <<content, boundary, parts, html_part, given, styleVars, pipeVars>>

NextSplit == FindBoundary \/ SplitParts \/ SelectHtml \/ ParseHtml

SpecSplit == InitSplit /\ [][NextSplit]_vars

(***************************************************************************)
(* Spec: an MHTProcessor, its pool and the calls of process()              *)
(***************************************************************************)
MaxWorkers == 2
MaxParts   == 2
MaxCalls   == 2

OUTPUT_PATH  == <<111,47,120,46,104,116,109,108>>            \* o/x.html
RESOURCE_DIR == <<105,109,97,103,101,115>>                   \* images (line 128)
KEY_LOCATION == <<99,111,110,116,101,110,116,45,108,111,99,97,116,105,111,110>>
                                                             \* content-location
KEY_TYPE     == <<99,111,110,116,101,110,116,45,116,121,112,101>>  \* content-type
\* content-transfer-encoding
KEY_ENCODING ==
    <<99,111,110,116,101,110,116,45,116,114,97,110,115,102,101,114,45,101,110,99,111,
      100,105,110,103>>
SEVEN_BIT    == <<55,98,105,116>>                            \* 7bit
TEXT_HTML    == <<116,101,120,116,47,104,116,109,108>>       \* text/html

(* The parts of the archives tried. Every archive has one of the first     *)
(* four as its first part, then resource parts.                            *)
\* Content-Type: text/html\n\n<p>\n
H_PLAIN ==
    <<67,111,110,116,101,110,116,45,84,121,112,101,58,32,116,101,120,116,47,104,116,109,
      108,10,10,60,112,62,10>>

\* Content-Location: i\nContent-Type: text/html\n\n<p>\n
H_LOC ==
    <<67,111,110,116,101,110,116,45,76,111,99,97,116,105,111,110,58,32,105,10,67,111,
      110,116,101,110,116,45,84,121,112,101,58,32,116,101,120,116,47,104,116,109,108,10,
      10,60,112,62,10>>

\* Content-Type: text/html\n<p>\n
H_NOBODY ==
    <<67,111,110,116,101,110,116,45,84,121,112,101,58,32,116,101,120,116,47,104,116,109,
      108,10,60,112,62,10>>

\* Content-Type: text/plain\n\nhi\n
NO_HTML ==
    <<67,111,110,116,101,110,116,45,84,121,112,101,58,32,116,101,120,116,47,112,108,97,
      105,110,10,10,104,105,10>>

\* Content-Location: a.png\nContent-Type: image/png\nContent-Transfer-Encoding: base64\n\nQQ==\n
R_PNG ==
    <<67,111,110,116,101,110,116,45,76,111,99,97,116,105,111,110,58,32,97,46,112,110,
      103,10,67,111,110,116,101,110,116,45,84,121,112,101,58,32,105,109,97,103,101,47,
      112,110,103,10,67,111,110,116,101,110,116,45,84,114,97,110,115,102,101,114,45,69,
      110,99,111,100,105,110,103,58,32,98,97,115,101,54,52,10,10,81,81,61,61,10>>

\* Content-Location: a.png\nContent-Type: image/jpeg\nContent-Transfer-Encoding: base64\n\nQUJD\n
R_JPG ==
    <<67,111,110,116,101,110,116,45,76,111,99,97,116,105,111,110,58,32,97,46,112,110,
      103,10,67,111,110,116,101,110,116,45,84,121,112,101,58,32,105,109,97,103,101,47,
      106,112,101,103,10,67,111,110,116,101,110,116,45,84,114,97,110,115,102,101,114,45,
      69,110,99,111,100,105,110,103,58,32,98,97,115,101,54,52,10,10,81,85,74,68,
      10>>

\* Content-Location: d/a.svg\nContent-Type: x/y+png; q\n\né\n
R_TXT ==
    <<67,111,110,116,101,110,116,45,76,111,99,97,116,105,111,110,58,32,100,47,97,46,
      115,118,103,10,67,111,110,116,101,110,116,45,84,121,112,101,58,32,120,47,121,43,
      112,110,103,59,32,113,10,10,233,10>>

\* Content-Location: a.png\nContent-Type: image/gif\nContent-Transfer-Encoding: base64\n\nQQ\n
R_BAD ==
    <<67,111,110,116,101,110,116,45,76,111,99,97,116,105,111,110,58,32,97,46,112,110,
      103,10,67,111,110,116,101,110,116,45,84,121,112,101,58,32,105,109,97,103,101,47,
      103,105,102,10,67,111,110,116,101,110,116,45,84,114,97,110,115,102,101,114,45,69,
      110,99,111,100,105,110,103,58,32,98,97,115,101,54,52,10,10,81,81,10>>

\* Content-Type: image/png\n\nContent-Location: c\n
R_NOLOC ==
    <<67,111,110,116,101,110,116,45,84,121,112,101,58,32,105,109,97,103,101,47,112,110,
      103,10,10,67,111,110,116,101,110,116,45,76,111,99,97,116,105,111,110,58,32,99,
      10>>

\* Content-Location:\nContent-Type: image/png\n\nQ\n
R_EMPTY ==
    <<67,111,110,116,101,110,116,45,76,111,99,97,116,105,111,110,58,10,67,111,110,116,
      101,110,116,45,84,121,112,101,58,32,105,109,97,103,101,47,112,110,103,10,10,81,
      10>>

HtmlParts == {"H_PLAIN", "H_LOC", "H_NOBODY", "NO_HTML"}

ResourceParts == {"R_PNG", "R_JPG", "R_TXT", "R_BAD", "R_NOLOC", "R_EMPTY"}

\* the text of the part of that name
PartText(name) ==
    CASE name = "H_PLAIN"  -> H_PLAIN
      [] name = "H_LOC"    -> H_LOC
      [] name = "H_NOBODY" -> H_NOBODY
      [] name = "NO_HTML"  -> NO_HTML
      [] name = "R_PNG"    -> R_PNG
      [] name = "R_JPG"    -> R_JPG
      [] name = "R_TXT"    -> R_TXT
      [] name = "R_BAD"    -> R_BAD
      [] name = "R_NOLOC"  -> R_NOLOC
      [] name = "R_EMPTY"  -> R_EMPTY

\* the parts re.split gives for an archive made of the parts of these names
PartsOf(names) == [i \in 1..Len(names) |-> PartText(names[i])]

(* The trees BeautifulSoup is taken to return (the parser is not modelled) *)
A_PNG   == <<97,46,112,110,103>>                             \* a.png
D_A_SVG == <<100,47,97,46,115,118,103>>                      \* d/a.svg
RED     == <<99,111,108,111,114,58,114,101,100>>             \* color:red

El(name, depth, attrs, text) ==
    [name |-> name, depth |-> depth, attrs |-> attrs, text |-> text]

\* <html><head></head><img src="a.png" alt="x"><img><div style="padding-left:20px;"></div></html>
TreeWithHead ==
    <<El("html", 0, <<>>, <<>>), El("head", 1, <<>>, <<>>),
      El("img", 1, [src |-> A_PNG, alt |-> <<120>>], <<>>),
      El("img", 1, <<>>, <<>>),
      El("div", 1, [style |-> PAD_STYLE], <<32>>)>>

\* <html><img src="a.png" style="color:red"><script src="a.png"></script>
\* <link href="d/a.svg"><div style="padding-left:20px;"><img src=""></div></html>
TreeNoHead ==
    <<El("html", 0, <<>>, <<>>),
      El("img", 1, [src |-> A_PNG, style |-> RED], <<>>),
      El("script", 1, [src |-> A_PNG], <<>>),
      El("link", 1, [href |-> D_A_SVG], <<>>),
      El("div", 1, [style |-> PAD_STYLE], <<>>),
      El("img", 2, [src |-> <<>>], <<>>)>>

\* <html><img src="a.png"><link href="a.png"><div src="a.png">t</div></html>
TreePlain ==
    <<El("html", 0, <<>>, <<>>),
      El("img", 1, [src |-> A_PNG], <<>>),
      El("link", 1, [href |-> A_PNG], <<>>),
      El("div", 1, [src |-> A_PNG], <<116>>)>>

\* <img src="a.png" style="color:red">
TreeBare == <<El("img", 0, [src |-> A_PNG, style |-> RED], <<>>)>>

Trees == {"TreeWithHead", "TreeNoHead", "TreePlain", "TreeBare"}

\* the tree of that name
TreeOf(name) ==
    CASE name = "TreeWithHead" -> TreeWithHead
      [] name = "TreeNoHead"   -> TreeNoHead
      [] name = "TreePlain"    -> TreePlain
      [] name = "TreeBare"     -> TreeBare

\* what process() is called on: whether the text declares a boundary, and the
\* names of its parts (the HTML part, then the resource parts)
Inputs ==
    [declared : BOOLEAN,
     parts    : {<<h>> \o r : h \in HtmlParts, r \in SeqsUpTo(ResourceParts, MaxParts)}]

\* lines 143-148 on each of these archives: the body of the HTML part, or None
\* when the part or its body is missing
HtmlBody ==
    [names \in {in.parts : in \in Inputs} |->
        LET part == FirstHtmlPart(PartsOf(names))
        IN  IF part = None THEN None ELSE HtmlMatch(part)]

\* line 65 and the state before any call
Init ==
    /\ SplitIdle
    /\ given = <<>>
    /\ StylesIdle
    /\ NoCall
    /\ max_workers \in 1..MaxWorkers
    /\ executor = "open"
    /\ calls = 0
    /\ result = None

Put(f, key, value) ==
    [x \in DOMAIN f \cup {key} |-> IF x = key THEN value ELSE f[x]]

\* lines 131-150: the text is read and split, the HTML part is looked for and
\* its body is parsed into one of the trees; a ValueError is raised when the
\* boundary, the part or its body is missing
ReadAndSplit ==
    /\ pc = "idle"
    /\ calls < MaxCalls
    /\ calls' = calls + 1
    /\ result' = None
    /\ \E in \in Inputs :
          IF ~in.declared \/ HtmlBody[in.parts] = None
          THEN /\ given' = [declared |-> in.declared, parts |-> in.parts, tree |-> "none"]
               /\ pc' = "except"
               /\ raised' = "split"
               /\ soup' = soup
          ELSE \E tree \in Trees :
                  /\ given' = [declared |-> in.declared, parts |-> in.parts, tree |-> tree]
                  /\ pc' = "placeholder"
                  /\ raised' = raised
                  /\ soup' = TreeOf(tree)
    /\ UNCHANGED <<splitVars, styleState, max_workers, executor, css_content,
                   total_resources, next_part, futures, collected, resource_map,
                   progress, dir_made, written, output>>

\* line 152
Placeholders ==
    /\ pc = "placeholder"
    /\ soup' = empty_msg(soup)
    /\ pc' = "styles"
    /\ UNCHANGED <<splitVars, given, styleState, max_workers, executor, calls, raised,
                   css_content, total_resources, next_part, futures, collected,
                   resource_map, progress, dir_made, written, output, result>>

\* line 154
Styles ==
    /\ pc = "styles"
    /\ soup' = ProcessStyles(soup).soup
    /\ css_content' = ProcessStyles(soup).css
    /\ pc' = "count"
    /\ UNCHANGED <<splitVars, given, styleState, max_workers, executor, calls, raised,
                   total_resources, next_part, futures, collected, resource_map,
                   progress, dir_made, written, output, result>>

\* lines 164-166 of one part
Counted(part) ==
    /\ Contains(part, CL_MARK)
    /\ HeaderGet(parse_headers(Partition(part, BLANK_LF)[1]), KEY_LOCATION, <<>>) # <<>>

\* lines 174-178 and 185-190: what save_resource is called with
TaskOf(part) ==
    LET headers == parse_headers(Partition(part, BLANK_LF)[1])
    IN  [content_location |-> HeaderGet(headers, KEY_LOCATION, None),
         content_type     |-> SplitChar(HeaderGet(headers, KEY_TYPE, <<>>), 59)[1],
         data             |-> Strip(Partition(part, BLANK_LF)[2]),
         encoding         |-> HeaderGet(headers, KEY_ENCODING, SEVEN_BIT),
         state            |-> "queued",
         result           |-> None]

\* lines 171-181: the part is one the loop goes on to submit
Submitted(part) ==
    /\ Contains(part, CL_MARK)
    /\ ~StartsWithAt(TaskOf(part).content_type, 1, TEXT_HTML)

\* what the loops of lines 160 and 170 find in each part an archive can have
Loop ==
    [name \in HtmlParts \cup ResourceParts |->
        [counted   |-> Counted(PartText(name)),
         submitted |-> Submitted(PartText(name)),
         task      |-> TaskOf(PartText(name))]]

\* lines 156-169
Count ==
    /\ pc = "count"
    /\ futures' = <<>>
    /\ resource_map' = <<>>
    /\ total_resources' = Cardinality({i \in 1..Len(given.parts) : Loop[given.parts[i]].counted})
    /\ next_part' = 1
    /\ pc' = "submit"
    /\ UNCHANGED <<splitVars, given, styleVars, max_workers, executor, calls, raised,
                   css_content, collected, progress, dir_made, written, output, result>>

\* lines 170-193, one turn of the loop: the part is passed over, or submitted;
\* submit raises RuntimeError once the pool is shut down
SubmitPart ==
    /\ pc = "submit"
    /\ LET part == Loop[given.parts[next_part]]
           more == IF next_part < Len(given.parts) THEN "submit" ELSE "collect"
       IN  IF ~part.submitted
           THEN /\ pc' = more
                /\ UNCHANGED <<futures, raised>>
           ELSE IF executor = "shutdown"
           THEN /\ pc' = "except"
                /\ raised' = "submit"
                /\ UNCHANGED futures
           ELSE /\ futures' = Append(futures, part.task)
                /\ pc' = more
                /\ UNCHANGED raised
    /\ next_part' = next_part + 1
    /\ UNCHANGED <<splitVars, given, styleVars, max_workers, executor, calls,
                   css_content, total_resources, collected, resource_map, progress,
                   dir_made, written, output, result>>

ResourceDir == Join(DirName(OUTPUT_PATH), RESOURCE_DIR)      \* line 158

Running(fs) == {i \in 1..Len(fs) : fs[i].state = "running"}

\* a worker of the pool is free and task i is the first of the queue
MayStart(fs, i, workers) ==
    /\ fs[i].state = "queued"
    /\ \A j \in 1..(i - 1) : fs[j].state # "queued"
    /\ Cardinality(Running(fs)) < workers

\* f.write(content) on a file opened with "wb", which may have been written by
\* another task since
WriteAtStart(old, new) == new \o SubSeq(old, Len(new) + 1, Len(old))

\* save_resource, lines 34-52, in a worker: os.path.basename raises TypeError
\* for None, b64decode raises for data that stops inside a quad; both are caught
\* at line 59. Otherwise the directory exists and the file is open and empty
TaskOpen(i) ==
    /\ MayStart(futures, i, max_workers)
    /\ LET f    == futures[i]
           path == FilePath(f.content_location, f.content_type, ResourceDir)
       IN  IF f.content_location = None
           THEN /\ futures' = [futures EXCEPT ![i].state = "done"]
                /\ UNCHANGED <<dir_made, written>>
           ELSE IF Content(f.data, f.encoding) = None
           THEN /\ futures' = [futures EXCEPT ![i].state = "done"]
                /\ dir_made' = TRUE
                /\ UNCHANGED written
           ELSE /\ futures' = [futures EXCEPT ![i].state = "running"]
                /\ dir_made' = TRUE
                /\ written' = Put(written, path, <<>>)
    /\ UNCHANGED <<splitVars, given, styleVars, max_workers, executor, calls, pc, raised,
                   css_content, total_resources, next_part, collected, resource_map,
                   progress, output, result>>

\* save_resource, lines 53-58, in a worker
TaskWrite(i) ==
    /\ futures[i].state = "running"
    /\ LET f    == futures[i]
           path == FilePath(f.content_location, f.content_type, ResourceDir)
       IN  /\ written' = Put(written, path,
                             WriteAtStart(written[path], Content(f.data, f.encoding)))
           /\ progress' = progress + 1
           /\ futures' = [futures EXCEPT ![i].state = "done",
                                         ![i].result = <<f.content_location, path>>]
    /\ UNCHANGED <<splitVars, given, styleVars, max_workers, executor, calls, pc, raised,
                   css_content, total_resources, next_part, collected, resource_map,
                   dir_made, output, result>>

\* a loop that is over with the first future handed out
ExhaustedAtFirst(fs, handed) == handed # {} \/ fs = <<>>

\* as_completed(futures) has handed out every future
Exhausted(fs, handed) == handed = 1..Len(fs)

\* a loop that merges the result of the first future to finish and no other
CollectFirst(i) ==
    /\ pc = "collect"
    /\ i \notin collected
    /\ futures[i].state = "done"
    /\ collected' = collected \cup {i}
    /\ resource_map' = IF futures[i].result # None /\ resource_map = <<>>
                       THEN Put(resource_map, futures[i].result[1], futures[i].result[2])
                       ELSE resource_map
    /\ UNCHANGED <<splitVars, given, styleVars, max_workers, executor, calls, pc, raised,
                   css_content, total_resources, next_part, futures, progress, dir_made,
                   written, output, result>>

\* lines 195-197, one turn of the loop: as_completed hands out a finished future
Collect(i) ==
    /\ pc = "collect"
    /\ i \notin collected
    /\ futures[i].state = "done"
    /\ collected' = collected \cup {i}
    /\ resource_map' = IF futures[i].result # None
                       THEN Put(resource_map, futures[i].result[1], futures[i].result[2])
                       ELSE resource_map
    /\ UNCHANGED <<splitVars, given, styleVars, max_workers, executor, calls, pc, raised,
                   css_content, total_resources, next_part, futures, progress, dir_made,
                   written, output, result>>

\* line 199, once the loop of line 195 is over
Rewrite ==
    /\ pc = "collect"
    /\ Exhausted(futures, collected)
    /\ soup' = update_references(soup, resource_map, OUTPUT_PATH)
    /\ pc' = "inject"
    /\ UNCHANGED <<splitVars, given, styleState, max_workers, executor, calls, raised,
                   css_content, total_resources, next_part, futures, collected,
                   resource_map, progress, dir_made, written, output, result>>

\* lines 201-207. Without a head element, soup.html is None for a tree with no
\* html element, and .append is called on what Tag.insert returns: both raise
\* AttributeError when that is None, and a list takes the style tag for itself
InjectStylesheet ==
    /\ pc = "inject"
    /\ IF css_content = <<>>
       THEN pc' = "write" /\ UNCHANGED <<soup, raised>>
       ELSE IF FirstNamed(soup, "head") # 0
       THEN /\ soup' = AppendChild(soup, FirstNamed(soup, "head"), StyleTag(css_content))
            /\ pc' = "write"
            /\ UNCHANGED raised
       ELSE IF FirstNamed(soup, "html") = 0
       THEN pc' = "except" /\ raised' = "inject" /\ UNCHANGED soup
       ELSE /\ soup' = InsertFirst(soup, FirstNamed(soup, "html"),
                                   El("head", 0, <<>>, <<>>))
            /\ \E returned \in InsertReturns :
                  IF returned = "None"
                  THEN pc' = "except" /\ raised' = "inject"
                  ELSE pc' = "write" /\ UNCHANGED raised
    /\ UNCHANGED <<splitVars, given, styleState, max_workers, executor, calls,
                   css_content, total_resources, next_part, futures, collected,
                   resource_map, progress, dir_made, written, output, result>>

\* lines 209-214: str(soup) is written (serialising is not modelled: the
\* output is the tree)
WriteOutput ==
    /\ pc = "write"
    /\ output' = soup
    /\ result' = TRUE
    /\ pc' = "finally"
    /\ UNCHANGED <<splitVars, given, styleVars, max_workers, executor, calls, raised,
                   css_content, total_resources, next_part, futures, collected,
                   resource_map, progress, dir_made, written>>

\* lines 216-218
Except ==
    /\ pc = "except"
    /\ result' = FALSE
    /\ pc' = "finally"
    /\ UNCHANGED <<splitVars, given, styleVars, max_workers, executor, calls, raised,
                   css_content, total_resources, next_part, futures, collected,
                   resource_map, progress, dir_made, written, output>>

\* line 220 and the return: shutdown(wait=True) returns once no task is left,
\* and the locals of the call are gone
Finally ==
    /\ pc = "finally"
    /\ \A i \in 1..Len(futures) : futures[i].state = "done"
    /\ executor' = "shutdown"
    /\ given' = <<>>
    /\ soup' = <<>>
    /\ pc' = "idle"
    /\ raised' = "none"
    /\ css_content' = <<>>
    /\ total_resources' = 0
    /\ next_part' = 0
    /\ futures' = <<>>
    /\ collected' = {}
    /\ resource_map' = <<>>
    /\ progress' = 0
    /\ dir_made' = FALSE
    /\ written' = <<>>
    /\ output' = None
    /\ UNCHANGED <<splitVars, styleState, max_workers, calls, result>>

Next ==
    \/ ReadAndSplit
    \/ Placeholders
    \/ Styles
    \/ Count
    \/ SubmitPart
    \/ \E i \in 1..Len(futures) : TaskOpen(i)
    \/ \E i \in 1..Len(futures) : TaskWrite(i)
    \/ \E i \in 1..Len(futures) : Collect(i)
    \/ Rewrite
    \/ InjectStylesheet
    \/ WriteOutput
    \/ Except
    \/ Finally

Spec == Init /\ [][Next]_vars

(***************************************************************************)
(* The claims                                                              *)
(***************************************************************************)

\* ---- C5 (SpecSplit)
\* everything after the part's first blank-line separator, up to the next
\* boundary marker
WholeBody(g) ==
    LET p    == PartOf(g)
        seps == {i \in 1..Len(p) : SeparatorAt(p, i) > 0}
    IN  IF seps = {} THEN None
        ELSE SubSeq(p, SeparatorAt(p, CHOOSE i \in seps : \A k \in seps : i <= k), Len(p))

\* C5: for an archive that declares a boundary and holds exactly one text/html
\* part, the text handed to the HTML parser is the part's whole body with the
\* surrounding whitespace trimmed: no line of the body cuts it short.
C5_WholeBodyParsed ==
    (sp = "parsed") => html_text = Strip(WholeBody(given))

\* ---- C6 (SpecStyles)
\* the elements process_styles has gone through in this run
Styled == {i \in 1..Len(given) :
              /\ Has(given[i], "style")
              /\ \A k \in 1..Len(todo) : todo[k] # i}

\* the class name element i was given, None when it was given none
GivenClass(i) ==
    IF Has(soup[i], "style") \/ ~Has(soup[i], "class") THEN None
    ELSE soup[i].attrs["class"][Len(soup[i].attrs["class"])]

StyleOf(i) == given[i].attrs["style"]

\* how many different texts key gives to the styled elements up to the first
\* one whose text is that of element i
FirstSeenRank(key(_), i) ==
    LET first == CHOOSE f \in 1..i :
                    /\ Has(given[f], "style") /\ key(f) = key(i)
                    /\ \A j \in 1..(f - 1) : ~(Has(given[j], "style") /\ key(j) = key(i))
    IN  Cardinality({key(j) : j \in {j \in 1..first :
                                        Has(given[j], "style") /\ key(j) # <<>>}})

\* C6, as stated: within one run, two elements with byte-identical non-empty
\* style strings are given the same class i-style-N, two elements whose style
\* strings differ are given different classes, and N counts the style strings
\* in the order of their first sighting, from 1 in every run.
C6_ByteIdenticalStyles ==
    (sp = "idle" /\ run >= 1) =>
        \A i \in Styled : \A j \in Styled :
            /\ (StyleOf(i) = StyleOf(j) /\ StyleOf(i) # <<>>)
                   => (GivenClass(i) # None /\ GivenClass(i) = GivenClass(j))
            /\ (StyleOf(i) # StyleOf(j)) => (GivenClass(i) # GivenClass(j))
            /\ GivenClass(i) = I_STYLE \o Decimal(FirstSeenRank(StyleOf, i))

Trimmed(i) == Strip(StyleOf(i))

\* C6, amended: the same with every style string taken after str.strip(); an
\* element whose style is empty once trimmed is left as it was.
C6_TrimmedStyles ==
    (sp = "idle" /\ run >= 1) =>
        /\ \A i \in Styled :
              IF Trimmed(i) = <<>>
              THEN soup[i] = given[i]
              ELSE /\ ~Has(soup[i], "style")
                   /\ soup[i].attrs["class"]
                        = Append(Get(given[i], "class", <<>>),
                                 I_STYLE \o Decimal(FirstSeenRank(Trimmed, i)))
        /\ \A i \in Styled : \A j \in Styled :
              (Trimmed(i) # <<>> /\ Trimmed(j) # <<>>)
                  => ((Trimmed(i) = Trimmed(j)) <=> (GivenClass(i) = GivenClass(j)))
        /\ counter = 1 + Cardinality({Trimmed(i) : i \in Styled} \ {<<>>})

\* a second run has gone through "a", then " a", then "b": the first two share
\* i-style-1 and the third has i-style-2
C6_Witness ==
    /\ sp = "idle" /\ run = 2 /\ todo = <<>>
    /\ Len(given) = 3 /\ Styled = {1, 2, 3}
    /\ StyleOf(1) = <<97>> /\ StyleOf(2) = <<32,97>> /\ StyleOf(3) = <<98>>
    /\ GivenClass(1) = I_STYLE \o <<49>>
    /\ GivenClass(2) = I_STYLE \o <<49>>
    /\ GivenClass(3) = I_STYLE \o <<50>>

\* ---- the conversion (Spec)
\* the call is past the loop of line 170
PastSubmission == pc \in {"collect", "inject", "write", "finally"}
                     \/ (pc = "except" /\ raised = "inject")

\* the extraction tasks that have finished, and those of them that failed
Finished == {i \in 1..Len(futures) : futures[i].state = "done"}
Failed   == {i \in Finished : futures[i].result = None}
Saved    == Finished \ Failed

\* the parts of the archive the loop of line 170 hands to the pool
ResourcePartsOf(g) == {i \in 1..Len(g.parts) : Loop[g.parts[i]].submitted}

\* C3: when the input has no boundary declaration, no text/html part or no
\* HTML body that can be located, process() fails before any extraction task
\* is submitted: no extraction runs, the resource directory is not created, no
\* resource file and no output file is written, and the call returns failure.
C3_FormatFailureBeforeSubmission ==
    (pc # "idle" /\ (~given.declared \/ given.parts[1] \in {"NO_HTML", "H_NOBODY"})) =>
        /\ pc \in {"except", "finally"}
        /\ raised = "split"
        /\ futures = <<>> /\ collected = {} /\ progress = 0
        /\ ~dir_made /\ written = <<>> /\ output = None
        /\ (pc = "finally" => result = FALSE)

\* an archive whose HTML part has no body and which has a resource part has
\* been refused
C3_Witness ==
    /\ pc = "finally" /\ result = FALSE /\ raised = "split"
    /\ given.declared /\ given.parts[1] = "H_NOBODY"
    /\ ResourcePartsOf(given) # {}
    /\ executor = "open"

\* C1: update_references starts only once every extraction task submitted to
\* the pool has finished, with a record or a failure, and its result has been
\* merged into resource_map, whatever the interleaving, the number of workers
\* and the number of resource parts.
C1_RewriteAfterAllMerged ==
    [][(pc = "collect" /\ pc' = "inject") =>
          /\ Len(futures) = Cardinality(ResourcePartsOf(given))
          /\ \A i \in 1..Len(futures) :
                /\ futures[i].state = "done"
                /\ i \in collected
                /\ futures[i].result # None
                      => futures[i].result[1] \in DOMAIN resource_map]_vars

\* the references are rewritten after two extractions, one of which failed
C1_Witness ==
    /\ pc = "inject" /\ Len(futures) = 2 /\ collected = {1, 2}
    /\ Failed # {} /\ Saved # {}
    /\ max_workers = 1
    /\ soup # ProcessStyles(empty_msg(TreeOf(given.tree))).soup

\* C8: the progress callback is invoked once for every extraction task that
\* finishes, whether it succeeded or failed, so that once all the submitted
\* tasks have finished it has been invoked as many times as tasks were submitted.
C8_CallbackPerFinishedTask ==
    progress = Cardinality(Finished)

\* the tree as process_styles leaves it, before any reference is rewritten
Styled0(g) == ProcessStyles(empty_msg(TreeOf(g.tree))).soup

\* a head element of the tree holds a style element with that stylesheet
HeadHoldsStyle(els, css) ==
    \E h \in 1..Len(els) :
        /\ els[h].name = "head"
        /\ \E c \in (h + 1)..SubtreeEnd(els, h) :
              /\ els[c].name = "style" /\ els[c].text = css
              /\ els[c].depth = els[h].depth + 1

\* C9: whenever process_styles returns a stylesheet that is not empty and the
\* conversion reaches the stylesheet step, the step does not fail and the
\* document that is written has a style element with that stylesheet inside a
\* head element, the one it had or a new one.
C9_StylesheetInHead ==
    (css_content # <<>>) =>
        /\ raised # "inject"
        /\ (pc = "write") => HeadHoldsStyle(soup, css_content)
        /\ (pc = "finally" /\ output # None) => HeadHoldsStyle(output, css_content)

\* C4: update_references changes an attribute only when it is the src of an
\* img or the href of a link or script and its value is a key of resource_map;
\* every other attribute keeps its value and no element acquires an attribute,
\* for every resource_map the extraction can produce.
C4_RewriteFrame ==
    [][(pc = "collect" /\ pc' = "inject") =>
          /\ Len(soup') = Len(soup)
          /\ \A i \in 1..Len(soup) :
                /\ DOMAIN soup'[i].attrs = DOMAIN soup[i].attrs
                /\ \A a \in DOMAIN soup[i].attrs :
                      (soup'[i].attrs[a] # soup[i].attrs[a]) =>
                          /\ \/ soup[i].name = "img" /\ a = "src"
                             \/ soup[i].name \in {"link", "script"} /\ a = "href"
                          /\ soup[i].attrs[a] \in DOMAIN resource_map]_vars

\* C2: a failure inside one extraction is caught in save_resource and does not
\* reach process(): the conversion goes on, writes the output and returns
\* success; the resource that failed has no entry in resource_map, the entries
\* of the others are theirs, and an attribute that referred to the failed
\* resource keeps its value.
C2_ExtractionFailureContained ==
    (Failed # {}) =>
        /\ pc # "except"
        /\ (pc = "finally") => (result = TRUE /\ output # None)
        /\ (PastSubmission /\ collected = 1..Len(futures)) =>
              /\ \A i \in Failed :
                    \/ futures[i].content_location \notin DOMAIN resource_map
                    \/ \E j \in Saved :
                          futures[j].content_location = futures[i].content_location
              /\ \A j \in Saved :
                    /\ futures[j].result[1] \in DOMAIN resource_map
                    /\ \E k \in Saved : /\ futures[k].result[1] = futures[j].result[1]
                                        /\ resource_map[futures[j].result[1]]
                                              = futures[k].result[2]
        /\ (pc = "inject") =>
              \A i \in 1..Len(soup) :
                  (\A j \in Saved : futures[j].content_location
                                        # RefValue(Styled0(given)[i], RefAttr(Styled0(given)[i])))
                      => soup[i] = Styled0(given)[i]

\* C10: the pool is shut down at the end of every call. A second call on the
\* same instance whose input has a resource part submits nothing, returns
\* failure and writes neither a resource file nor the output; a second call
\* whose input is a well-formed archive without resource parts succeeds.
C10_OnePoolPerInstance ==
    /\ (pc = "idle" /\ calls >= 1) => executor = "shutdown"
    /\ (pc # "idle" /\ calls >= 2 /\ ResourcePartsOf(given) # {}) =>
          /\ futures = <<>> /\ ~dir_made /\ written = <<>> /\ output = None
          /\ pc \notin {"collect", "inject", "write"}
          /\ (pc = "finally") => result = FALSE
    /\ (pc = "finally" /\ calls >= 2 /\ ResourcePartsOf(given) = {}
            /\ given.declared /\ given.parts[1] \in {"H_PLAIN", "H_LOC"}) =>
          (result = TRUE /\ output # None)

\* ---- C7
\* the tasks that have a content location, and so a file path
Located == {i \in 1..Len(futures) : futures[i].content_location # None}

PathOf(i) == FilePath(futures[i].content_location, futures[i].content_type, ResourceDir)

\* the content locations and the file paths of the batch are pairwise distinct
PairwiseDistinct ==
    \A i \in Located : \A j \in Located :
        (i # j) => /\ futures[i].content_location # futures[j].content_location
                   /\ PathOf(i) # PathOf(j)

\* the tasks whose content can be decoded
Decodable == {i \in Located : Content(futures[i].data, futures[i].encoding) # None}

\* C7: each extraction writes bytes and a path that depend on its own
\* arguments only, so for a batch whose content locations and file paths are
\* pairwise distinct the final resource_map and the final bytes of every file
\* are the same for every number of workers and every interleaving.
C7_ExtractionDeterministic ==
    (PastSubmission /\ collected = 1..Len(futures) /\ PairwiseDistinct) =>
        /\ DOMAIN resource_map = {futures[i].content_location : i \in Decodable}
        /\ DOMAIN written = {PathOf(i) : i \in Decodable}
        /\ \A i \in Decodable :
              /\ resource_map[futures[i].content_location] = PathOf(i)
              /\ written[PathOf(i)] = Content(futures[i].data, futures[i].encoding)

\* two workers have taken a batch of two resources with different locations
\* and different paths, and both have been saved and merged
C7_Witness ==
    /\ pc = "inject" /\ max_workers = 2
    /\ given.parts = <<"H_LOC", "R_JPG", "R_TXT">>
    /\ PairwiseDistinct /\ Decodable = {1, 2}
    /\ Cardinality(DOMAIN resource_map) = 2 /\ Cardinality(DOMAIN written) = 2

====
